---- MODULE Spec2Model ----
(***************************************************************************)
(* Kitfile generation (pkg/lib/kitfile/generate.go): GenerateKitfile walks  *)
(* the immediate children of a directory and assembles the sections of a    *)
(* Kitfile (model, datasets, docs, code, package).                          *)
(*                                                                          *)
(* File names and paths are sequences of tokens: a stem, extension tokens   *)
(* (each beginning with a dot) and the separator "/".  <<"w", ".pt">> is    *)
(* "w.pt", <<"assets", "/", "w", ".pt">> is "assets/w.pt".                  *)
(***************************************************************************)
EXTENDS Integers, Sequences, FiniteSets, TLC

\* ------------------------------------------------------------------ bounds
\* Generic subdirectories of the root in the many-directories file systems.
NumDirs == 6
\* Children listed in the subdirectory of the single-directory file systems.
MaxChildren == 4
\* Model files in the root of the model-election file systems.
MaxCandidates == 3

\* --------------------------------------------------------------- fileType
fileTypeModel == 0
fileTypeDataset == 1
fileTypeCode == 2
fileTypeDocs == 3
fileTypeMetadata == 4
fileTypeUnknown == 5

modelWeightsSuffixes ==
    << ".safetensors", ".pkl", ".joblib",
       ".bin", ".pth", ".pt", ".mar", ".pt2", ".ptl",
       ".pb", ".ckpt", ".tflite", ".tfrecords",
       ".npy", ".npz",
       ".keras", ".h5", ".caffemodel", ".pmml", ".coreml",
       ".gguf", ".ggml", ".ggmf", ".llamafile", ".onnx" >>

docsSuffixes == << ".md", ".adoc", ".html", ".pdf" >>

metadataSuffixes == << ".json", ".yaml", ".xml", ".txt" >>

datasetSuffixes == << ".tar", ".zip", ".parquet", ".csv" >>

\* ------------------------------------------------------- strings and paths
Range(s) == { s[k] : k \in 1..Len(s) }

\* The tokens that begin with a dot: the suffix tables and the extensions of
\* files no table knows.
DotTokens ==
    Range(modelWeightsSuffixes) \cup Range(docsSuffixes)
        \cup Range(metadataSuffixes) \cup Range(datasetSuffixes) \cup {".py"}

\* strings.ToLower, token by token.
ToLowerToken(t) ==
    CASE t = "README" -> "readme"
      [] t = "Readme" -> "readme"
      [] t = "LICENSE" -> "license"
      [] t = "License" -> "license"
      [] OTHER -> t

ToLower(s) == [k \in 1..Len(s) |-> ToLowerToken(s[k])]

\* strings.HasPrefix(s, prefix) for a one-token prefix.
HasPrefix(s, prefix) == Len(s) > 0 /\ s[1] = prefix

\* strings.HasSuffix(s, suffix) for a one-token suffix.
HasSuffix(s, suffix) == Len(s) > 0 /\ s[Len(s)] = suffix

\* strings.TrimSuffix(s, suffix): s without the trailing suffix, s when it
\* does not end with it.
TrimSuffix(s, suffix) ==
    IF Len(suffix) <= Len(s)
          /\ SubSeq(s, Len(s) - Len(suffix) + 1, Len(s)) = suffix
    THEN SubSeq(s, 1, Len(s) - Len(suffix))
    ELSE s

\* filepath.Join(dir, name).
Join(dir, name) == dir \o <<"/">> \o name

\* Position of the last separator of a path, 0 when it has none.
LastSep(path) ==
    LET seps == { k \in 1..Len(path) : path[k] = "/" }
    IN  IF seps = {} THEN 0 ELSE CHOOSE k \in seps : \A j \in seps : j <= k

\* filepath.Base(path): the last element of the path.
Base(path) == SubSeq(path, LastSep(path) + 1, Len(path))

\* filepath.Ext(path): the suffix beginning at the final dot of the last
\* element of the path, empty when there is no dot.
Ext(path) ==
    LET b == Base(path)
    IN  IF Len(b) > 0 /\ b[Len(b)] \in DotTokens THEN <<b[Len(b)]>> ELSE <<>>

anySuffix(query, suffixes) ==
    \E k \in 1..Len(suffixes) : HasSuffix(query, suffixes[k])

determineFileType(filename) ==
    IF anySuffix(filename, modelWeightsSuffixes) THEN fileTypeModel
    ELSE IF anySuffix(filename, metadataSuffixes) THEN fileTypeMetadata
    ELSE IF anySuffix(filename, docsSuffixes) THEN fileTypeDocs
    ELSE IF anySuffix(filename, datasetSuffixes) THEN fileTypeDataset
    ELSE fileTypeUnknown

\* constants.IsDefaultKitfileName: the names a Kitfile goes by.
IsDefaultKitfileName(filename) ==
    filename \in { <<"Kitfile">>, <<"kitfile">>, <<".kitfile">> }

\* ------------------------------------------------------------ file system
\* A directory entry (fs.DirEntry) with what later reads of it return: the
\* size os.Stat reports, the licenses licensecheck.Scan matches in its
\* bytes, whether it can be read, and for a directory its own listing.
File(name, size, statOk, matches, readable) ==
    [name |-> name, isDir |-> FALSE, size |-> size, statOk |-> statOk,
     matches |-> matches, readable |-> readable, entries |-> <<>>]

Dir(name, readable, entries) ==
    [name |-> name, isDir |-> TRUE, size |-> 0, statOk |-> TRUE,
     matches |-> <<>>, readable |-> readable, entries |-> entries]

PlainFile(name, size) == File(name, size, TRUE, <<>>, TRUE)

\* ---------------------------------------------------------------- Kitfile
\* artifact.KitFile. Model is a pointer: the empty sequence is nil.
NewKitFile(package) ==
    [Package |-> package, Model |-> <<>>, DataSets |-> <<>>, Docs |-> <<>>,
     Code |-> <<>>]

NewModel(path, name) ==
    [Path |-> path, Name |-> name, License |-> "", Parts |-> <<>>]

DocsEntry(path, description) == [Path |-> path, Description |-> description]

DataSetEntry(path) == [Path |-> path, License |-> ""]

CodeEntry(path) == [Path |-> path, License |-> ""]

ModelPart(path) == [Path |-> path]

EmptyPackage == [Name |-> "", License |-> ""]

Paths(list) == [k \in 1..Len(list) |-> list[k].Path]

\* -------------------------------------------------------- addDirToKitfile
\* The children of a directory as the scan of addDirToKitfile sees them:
\* the path relative to the root and the bucket of directoryContents the
\* child is appended to (a nested directory goes to fileTypeUnknown).
DirItems(dirPath, entries) ==
    [k \in 1..Len(entries) |->
        [path |-> Join(dirPath, entries[k].name),
         isDir |-> entries[k].isDir,
         bucket |-> IF entries[k].isDir THEN fileTypeUnknown
                    ELSE determineFileType(entries[k].name)]]

ItemPaths(items) == [k \in 1..Len(items) |-> items[k].path]

\* directoryContents: one list of paths per fileType, in listing order.
DirectoryContents(dirPath, entries) ==
    [fType \in fileTypeModel..fileTypeUnknown |->
        ItemPaths(SelectSeq(DirItems(dirPath, entries),
                            LAMBDA it : it.bucket = fType))]

\* modelFiles after the scan: the files of type Model, in listing order.
DirModelFiles(dirPath, entries) ==
    ItemPaths(SelectSeq(DirItems(dirPath, entries),
                        LAMBDA it : ~it.isDir /\ it.bucket = fileTypeModel))

\* ReduceContents with the metadata files counted like the others.
RECURSIVE ReduceContentsWithMetadata(_, _, _)
ReduceContentsWithMetadata(directoryContents, fType, acc) ==
    IF fType > fileTypeUnknown THEN acc
    ELSE LET files == directoryContents[fType]
             next ==
                 IF Len(files) > 0
                 THEN [overall |-> fType,
                       mixed |-> acc.mixed \/ acc.overall # fileTypeUnknown]
                 ELSE acc
         IN  ReduceContentsWithMetadata(directoryContents, fType + 1, next)

\* The loop over directoryContents from index fType on: acc holds
\* overallFiletype and directoryHasMixedContents.
RECURSIVE ReduceContents(_, _, _)
ReduceContents(directoryContents, fType, acc) ==
    IF fType > fileTypeUnknown THEN acc
    ELSE LET files == directoryContents[fType]
             next ==
                 IF Len(files) > 0 /\ fType # fileTypeMetadata
                 THEN [overall |-> fType,
                       mixed |-> acc.mixed \/ acc.overall # fileTypeUnknown]
                 ELSE acc
         IN  ReduceContents(directoryContents, fType + 1, next)

OverallFiletype(directoryContents) ==
    ReduceContents(directoryContents, fileTypeModel,
                   [overall |-> fileTypeUnknown, mixed |-> FALSE])

ErrNone == "nil"
ErrReadDir == "failed to read directory"
ErrMixed == "mixed content in directory; unable to determine type"
ErrCode == "directory should be handled as Code"

\* addDirToKitfile(kitfile, baseDir, dirPath, d): the Kitfile as the call
\* leaves it, the returned modelFiles and the returned error.
addDirToKitfile(kitfile, dirPath, d) ==
    IF d.name = <<"docs">>
    THEN [kitfile |-> [kitfile EXCEPT !.Docs = Append(@, DocsEntry(dirPath, ""))],
          modelFiles |-> <<>>, err |-> ErrNone]
    ELSE IF d.name \in { <<"src">>, <<"pkg">>, <<"lib">>, <<"build">> }
    THEN [kitfile |-> [kitfile EXCEPT !.Code = Append(@, CodeEntry(dirPath))],
          modelFiles |-> <<>>, err |-> ErrNone]
    ELSE IF ~d.readable
    THEN [kitfile |-> kitfile, modelFiles |-> <<>>, err |-> ErrReadDir]
    ELSE
      LET directoryContents == DirectoryContents(dirPath, d.entries)
          modelFiles == DirModelFiles(dirPath, d.entries)
          r == OverallFiletype(directoryContents)
      IN  IF r.mixed
          THEN [kitfile |-> kitfile, modelFiles |-> modelFiles, err |-> ErrMixed]
          ELSE IF r.overall = fileTypeModel
          THEN [kitfile |-> kitfile,
                modelFiles |-> modelFiles \o directoryContents[fileTypeMetadata],
                err |-> ErrNone]
          ELSE IF r.overall = fileTypeDataset
          THEN [kitfile |->
                    [kitfile EXCEPT !.DataSets = Append(@, DataSetEntry(dirPath))],
                modelFiles |-> modelFiles, err |-> ErrNone]
          ELSE IF r.overall = fileTypeDocs
          THEN [kitfile |->
                    [kitfile EXCEPT !.Docs = Append(@, DocsEntry(dirPath, ""))],
                modelFiles |-> modelFiles, err |-> ErrNone]
          ELSE [kitfile |-> kitfile, modelFiles |-> modelFiles, err |-> ErrCode]

\* ------------------------------------------------------ addModelToKitfile
ErrStat == "failed to process file"

\* SizeLoop going on after a failed Stat, the file counted as empty.
RECURSIVE SizeLoopIgnoresErrors(_, _, _, _)
SizeLoopIgnoresErrors(modelPaths, infos, k, acc) ==
    IF k > Len(modelPaths) THEN acc
    ELSE LET size == IF infos[k].statOk THEN infos[k].size ELSE 0
             grown == size > acc.largestSize
         IN  SizeLoopIgnoresErrors(modelPaths, infos, k + 1,
                 [largestFile |-> IF grown THEN modelPaths[k] ELSE acc.largestFile,
                  largestSize |-> IF grown THEN size ELSE acc.largestSize,
                  averageSize |-> acc.averageSize + size,
                  failed |-> FALSE])

\* The size loop of addModelToKitfile from index k on. infos[k] is what
\* os.Stat returns for modelPaths[k]; acc holds largestFile, largestSize,
\* averageSize (the running sum) and whether a Stat failed.
RECURSIVE SizeLoop(_, _, _, _)
SizeLoop(modelPaths, infos, k, acc) ==
    IF k > Len(modelPaths) THEN acc
    ELSE IF ~infos[k].statOk THEN [acc EXCEPT !.failed = TRUE]
    ELSE LET size == infos[k].size
             grown == size > acc.largestSize
         IN  SizeLoop(modelPaths, infos, k + 1,
                 [largestFile |-> IF grown THEN modelPaths[k] ELSE acc.largestFile,
                  largestSize |-> IF grown THEN size ELSE acc.largestSize,
                  averageSize |-> acc.averageSize + size,
                  failed |-> FALSE])

\* Dominates with a largest file of exactly 1.5x the average taken too.
DominatesOrEquals(largestSize, averageSize) ==
    largestSize >= averageSize + (averageSize \div 2)

\* The test of line 332: the largest file is more than 1.5x the average.
Dominates(largestSize, averageSize) ==
    largestSize > averageSize + (averageSize \div 2)

PartsOf(paths) == [k \in 1..Len(paths) |-> ModelPart(paths[k])]

\* addModelToKitfile(kitfile, baseDir, modelPaths): the Kitfile as the call
\* leaves it and the returned error.
addModelToKitfile(kitfile, modelPaths, infos) ==
    IF Len(modelPaths) = 0 THEN [kitfile |-> kitfile, err |-> ErrNone]
    ELSE IF Len(modelPaths) = 1
    THEN LET filename == Base(modelPaths[1])
         IN  [kitfile |->
                  [kitfile EXCEPT !.Model =
                      <<NewModel(modelPaths[1], TrimSuffix(filename, Ext(filename)))>>],
              err |-> ErrNone]
    ELSE
      LET sized == SizeLoop(modelPaths, infos, 1,
                       [largestFile |-> <<>>, largestSize |-> 0,
                        averageSize |-> 0, failed |-> FALSE])
          averageSize == sized.averageSize \div Len(modelPaths)
          largestFile == sized.largestFile
      IN  IF sized.failed THEN [kitfile |-> kitfile, err |-> ErrStat]
          ELSE IF Dominates(sized.largestSize, averageSize)
          THEN [kitfile |->
                   [kitfile EXCEPT !.Model =
                       <<[NewModel(largestFile,
                                   TrimSuffix(largestFile, Ext(largestFile)))
                            EXCEPT !.Parts =
                               PartsOf(SelectSeq(modelPaths,
                                           LAMBDA p : p # largestFile))]>>],
                err |-> ErrNone]
          ELSE [kitfile |->
                   [kitfile EXCEPT !.Model =
                       <<[NewModel(modelPaths[1], <<>>)
                            EXCEPT !.Parts = PartsOf(Tail(modelPaths))]>>],
                err |-> ErrNone]

\* ---------------------------------------------------------- detectLicense
\* detectLicense(licensePath): the identifier when licensecheck.Scan matches
\* exactly one license, the empty string and an error otherwise.
detectLicense(d) ==
    IF ~d.readable THEN [licenseType |-> "", failed |-> TRUE]
    ELSE IF Len(d.matches) = 1
    THEN [licenseType |-> d.matches[1], failed |-> FALSE]
    ELSE [licenseType |-> "", failed |-> TRUE]

\* -------------------------------------------------------- GenerateKitfile
VARIABLES
    baseDir,                 \* the directory GenerateKitfile is run on
    packageOpt,              \* the package section the caller passes
    pc,                      \* position in GenerateKitfile
    kitfile,                 \* the Kitfile under construction
    includeCatchallSection,
    unprocessedDirPaths,
    modelFiles,
    metadataPaths,
    detectedLicenseType,
    trace,                   \* the directories logged at line 106, with the error
    ret                      \* what GenerateKitfile returns: (*KitFile, error)

vars ==
    << baseDir, packageOpt, pc, kitfile, includeCatchallSection, unprocessedDirPaths,
       modelFiles, metadataPaths, detectedLicenseType, trace, ret >>

\* The local variables of GenerateKitfile before the loop over ds.
Locals(kf) ==
    [kitfile |-> kf, includeCatchallSection |-> FALSE,
     unprocessedDirPaths |-> <<>>, modelFiles |-> <<>>, metadataPaths |-> <<>>,
     detectedLicenseType |-> "", trace |-> <<>>]

\* AddDir taking a directory that cannot be read for a processed one.
AddDirSkipsUnreadable(loc, d) ==
    LET r == addDirToKitfile(loc.kitfile, d.name, d)
        failed == r.err \notin { ErrNone, ErrReadDir }
    IN  [loc EXCEPT
            !.kitfile = r.kitfile,
            !.trace = IF failed THEN Append(@, [dir |-> d.name, err |-> r.err])
                      ELSE @,
            !.unprocessedDirPaths = IF failed THEN Append(@, d.name) ELSE @,
            !.modelFiles = @ \o r.modelFiles]

\* AddDir keeping the model files of a directory only when the directory
\* was summarized.
AddDirDropsFilesOnError(loc, d) ==
    LET r == addDirToKitfile(loc.kitfile, d.name, d)
        failed == r.err # ErrNone
    IN  [loc EXCEPT
            !.kitfile = r.kitfile,
            !.trace = IF failed THEN Append(@, [dir |-> d.name, err |-> r.err])
                      ELSE @,
            !.unprocessedDirPaths = IF failed THEN Append(@, d.name) ELSE @,
            !.modelFiles = IF failed THEN @ ELSE @ \o r.modelFiles]

\* Lines 103-111: a subdirectory d of the root.
AddDir(loc, d) ==
    LET r == addDirToKitfile(loc.kitfile, d.name, d)
        failed == r.err # ErrNone
    IN  [loc EXCEPT
            !.kitfile = r.kitfile,
            !.trace = IF failed THEN Append(@, [dir |-> d.name, err |-> r.err])
                      ELSE @,
            !.unprocessedDirPaths = IF failed THEN Append(@, d.name) ELSE @,
            !.modelFiles = @ \o r.modelFiles]

\* Lines 113-156: a file d of the root.
AddFile(loc, d) ==
    LET filename == d.name
        fType == determineFileType(filename)
    IN
    IF HasPrefix(ToLower(filename), "readme")
    THEN [loc EXCEPT
             !.kitfile.Docs = Append(@, DocsEntry(filename, "Readme file"))]
    ELSE IF HasPrefix(ToLower(filename), "license")
    THEN [loc EXCEPT
             !.kitfile.Docs = Append(@, DocsEntry(filename, "License file")),
             !.detectedLicenseType = detectLicense(d).licenseType]
    ELSE IF fType = fileTypeModel
    THEN [loc EXCEPT !.modelFiles = Append(@, filename)]
    ELSE IF fType = fileTypeMetadata
    THEN [loc EXCEPT !.metadataPaths = Append(@, filename)]
    ELSE IF fType = fileTypeDocs
    THEN [loc EXCEPT !.kitfile.Docs = Append(@, DocsEntry(filename, ""))]
    ELSE IF fType = fileTypeDataset
    THEN [loc EXCEPT !.kitfile.DataSets = Append(@, DataSetEntry(filename))]
    ELSE [loc EXCEPT !.includeCatchallSection = TRUE]

\* One iteration of the loop over ds (lines 95-157) on entry d.
LoopBody(loc, d) ==
    IF IsDefaultKitfileName(d.name) THEN loc
    ELSE IF d.isDir THEN AddDir(loc, d)
    ELSE AddFile(loc, d)

\* The loop over ds from index k on.
RECURSIVE Loop(_, _, _)
Loop(loc, ds, k) ==
    IF k > Len(ds) THEN loc ELSE Loop(LoopBody(loc, ds[k]), ds, k + 1)

\* The entry a path relative to baseDir names: a child of the root or a
\* child of one of its subdirectories.
EntryAt(path) ==
    IF LastSep(path) = 0
    THEN CHOOSE d \in Range(baseDir.entries) : d.name = path
    ELSE LET dir == CHOOSE d \in Range(baseDir.entries) :
                        d.name = SubSeq(path, 1, LastSep(path) - 1)
         IN  CHOOSE e \in Range(dir.entries) : e.name = Base(path)

\* What os.Stat returns for each of the paths.
StatAll(paths) == [k \in 1..Len(paths) |-> EntryAt(paths[k])]

\* Lines 174-185: one catch-all code layer, or one layer per unprocessed
\* directory.
CatchallThreshold == 5

\* CodeLayers with the catch-all layer from 5 unprocessed directories on.
CodeLayersFromFive(code, catchall, unprocessed) ==
    IF catchall \/ Len(unprocessed) >= CatchallThreshold
    THEN << CodeEntry(<<".">>) >>
    ELSE code \o [k \in 1..Len(unprocessed) |-> CodeEntry(unprocessed[k])]

CodeLayers(code, catchall, unprocessed) ==
    IF catchall \/ Len(unprocessed) > CatchallThreshold
    THEN << CodeEntry(<<".">>) >>
    ELSE code \o [k \in 1..Len(unprocessed) |-> CodeEntry(unprocessed[k])]

\* WithLicense with the single code layer tried before the single dataset.
WithLicenseCodeFirst(kf, licenseType) ==
    IF kf.Model # <<>> /\ licenseType # ""
    THEN [kf EXCEPT !.Model[1].License = licenseType]
    ELSE IF Len(kf.Code) = 1
    THEN [kf EXCEPT !.Code[1].License = licenseType]
    ELSE IF Len(kf.DataSets) = 1
    THEN [kf EXCEPT !.DataSets[1].License = licenseType]
    ELSE [kf EXCEPT !.Package.License = licenseType]

\* Lines 187-197: the section the detected license is written to.
WithLicense(kf, licenseType) ==
    IF kf.Model # <<>> /\ licenseType # ""
    THEN [kf EXCEPT !.Model[1].License = licenseType]
    ELSE IF Len(kf.DataSets) = 1
    THEN [kf EXCEPT !.DataSets[1].License = licenseType]
    ELSE IF Len(kf.Code) = 1
    THEN [kf EXCEPT !.Code[1].License = licenseType]
    ELSE [kf EXCEPT !.Package.License = licenseType]

NilKitfile == <<>>

\* os.ReadDir(baseDir) fails: GenerateKitfile returns the error.
ReadDirFails ==
    /\ pc = "start"
    /\ ~baseDir.readable
    /\ pc' = "done"
    /\ ret' = [kitfile |-> NilKitfile, err |-> "error reading directory"]
    /\ UNCHANGED << baseDir, packageOpt, kitfile, includeCatchallSection, unprocessedDirPaths,
                    modelFiles, metadataPaths, detectedLicenseType, trace >>

\* Lines 82-157: the listing of baseDir and the loop over its entries.
Scan ==
    /\ pc = "start"
    /\ baseDir.readable
    /\ LET loc == Loop(Locals(kitfile), baseDir.entries, 1)
       IN  /\ kitfile' = loc.kitfile
           /\ includeCatchallSection' = loc.includeCatchallSection
           /\ unprocessedDirPaths' = loc.unprocessedDirPaths
           /\ modelFiles' = loc.modelFiles
           /\ metadataPaths' = loc.metadataPaths
           /\ detectedLicenseType' = loc.detectedLicenseType
           /\ trace' = loc.trace
    /\ pc' = "scanned"
    /\ UNCHANGED << baseDir, packageOpt, ret >>

\* MetadataAsParts with the metadata files before the other parts.
MetadataAsPartsFirst(kf, paths) ==
    [kf EXCEPT !.Model[1].Parts = PartsOf(paths) \o @]

\* MetadataAsDataSets with the metadata files before the other datasets.
MetadataAsDataSetsFirst(kf, paths) ==
    [kf EXCEPT !.DataSets = [k \in 1..Len(paths) |-> DataSetEntry(paths[k])] \o @]

\* Lines 164-166: the metadata files as parts of the model.
MetadataAsParts(kf, paths) ==
    [kf EXCEPT !.Model[1].Parts = @ \o PartsOf(paths)]

\* Lines 169-171: the metadata files as datasets.
MetadataAsDataSets(kf, paths) ==
    [kf EXCEPT !.DataSets = @ \o [k \in 1..Len(paths) |-> DataSetEntry(paths[k])]]

\* Lines 159-172: the model section, and the metadata files as model parts
\* or as datasets.
AddModel ==
    /\ pc = "scanned"
    /\ IF Len(modelFiles) > 0
       THEN LET r == addModelToKitfile(kitfile, modelFiles, StatAll(modelFiles))
            IN  IF r.err # ErrNone
                THEN /\ pc' = "done"
                     /\ ret' = [kitfile |-> NilKitfile,
                                err |-> "failed to add model to Kitfile"]
                     /\ UNCHANGED kitfile
                ELSE /\ pc' = "modelled"
                     /\ kitfile' = MetadataAsParts(r.kitfile, metadataPaths)
                     /\ UNCHANGED ret
       ELSE /\ pc' = "modelled"
            /\ kitfile' = MetadataAsDataSets(kitfile, metadataPaths)
            /\ UNCHANGED ret
    /\ UNCHANGED << baseDir, packageOpt, includeCatchallSection, unprocessedDirPaths,
                    modelFiles, metadataPaths, detectedLicenseType, trace >>

\* Lines 174-185.
CatchAll ==
    /\ pc = "modelled"
    /\ kitfile' = [kitfile EXCEPT
          !.Code = CodeLayers(@, includeCatchallSection, unprocessedDirPaths)]
    /\ pc' = "coded"
    /\ UNCHANGED << baseDir, packageOpt, includeCatchallSection, unprocessedDirPaths,
                    modelFiles, metadataPaths, detectedLicenseType, trace, ret >>

\* Lines 187-199: the license, and the return of the Kitfile.
AttachLicense ==
    /\ pc = "coded"
    /\ kitfile' = WithLicense(kitfile, detectedLicenseType)
    /\ ret' = [kitfile |-> <<kitfile'>>, err |-> ErrNone]
    /\ pc' = "done"
    /\ UNCHANGED << baseDir, packageOpt, includeCatchallSection, unprocessedDirPaths,
                    modelFiles, metadataPaths, detectedLicenseType, trace >>

Next ==
    \/ ReadDirFails
    \/ Scan
    \/ AddModel
    \/ CatchAll
    \/ AttachLicense

\* The state GenerateKitfile starts in on the directory root, with the
\* package section packageOpt gives.
Start(root, package) ==
    /\ baseDir = root
    /\ packageOpt = package
    /\ pc = "start"
    /\ kitfile = NewKitFile(package)
    /\ includeCatchallSection = FALSE
    /\ unprocessedDirPaths = <<>>
    /\ modelFiles = <<>>
    /\ metadataPaths = <<>>
    /\ detectedLicenseType = ""
    /\ trace = <<>>
    /\ ret = [kitfile |-> NilKitfile, err |-> ErrNone]

\* ----------------------------------------------------------- file systems
\* os.ReadDir returns a listing sorted by file name. A universe is a sequence
\* of slots in file-name order (upper case before lower case); a slot holds
\* the variants of one name, and a listing takes each slot's name at most
\* once.
RECURSIVE ListingsFrom(_, _)
ListingsFrom(slots, k) ==
    IF k > Len(slots) THEN { <<>> }
    ELSE LET rest == ListingsFrom(slots, k + 1)
         IN  rest \cup { <<e>> \o r : e \in slots[k], r \in rest }

Listings(slots) == ListingsFrom(slots, 1)

Roots(slots) ==
    { Dir(<<"project">>, TRUE, l) : l \in Listings(slots) }
        \cup { Dir(<<"project">>, FALSE, <<>>) }

LicenseFile(name, matches, readable) == File(name, 1, TRUE, matches, readable)

\* The variants of a subdirectory with the given name.
ModelDirSmallConfig(name) ==
    Dir(name, TRUE, << PlainFile(<<"config", ".json">>, 100),
                       PlainFile(<<"weights", ".safetensors">>, 310) >>)
ModelDirBigConfig(name) ==
    Dir(name, TRUE, << PlainFile(<<"config", ".json">>, 900),
                       PlainFile(<<"weights", ".safetensors">>, 310) >>)
ModelDirNoStat(name) ==
    Dir(name, TRUE, << File(<<"w", ".pt">>, 0, FALSE, <<>>, TRUE) >>)
MixedDir(name) ==
    Dir(name, TRUE, << PlainFile(<<"run", ".py">>, 10),
                       PlainFile(<<"w", ".pt">>, 100) >>)
DatasetDir(name) == Dir(name, TRUE, << PlainFile(<<"x", ".parquet">>, 50) >>)
DocsDir(name) == Dir(name, TRUE, << PlainFile(<<"guide", ".md">>, 5) >>)
CodeDir(name) == Dir(name, TRUE, << PlainFile(<<"run", ".py">>, 10) >>)
UnreadableDir(name) == Dir(name, FALSE, <<>>)

\* A project with files of every kind and one subdirectory of every kind.
ProjectSlots ==
    << { LicenseFile(<<"LICENSE">>, <<"Apache-2.0">>, TRUE),
         LicenseFile(<<"LICENSE">>, <<"Apache-2.0", "MIT">>, TRUE) },
       { LicenseFile(<<"LICENSE", ".txt">>, <<"MIT">>, TRUE),
         LicenseFile(<<"LICENSE", ".txt">>, <<>>, FALSE) },
       { PlainFile(<<"adapter", ".bin">>, 100) },
       { ModelDirSmallConfig(<<"assets">>), ModelDirBigConfig(<<"assets">>),
         ModelDirNoStat(<<"assets">>), MixedDir(<<"assets">>),
         DatasetDir(<<"assets">>), DocsDir(<<"assets">>), CodeDir(<<"assets">>),
         UnreadableDir(<<"assets">>) },
       { PlainFile(<<"config", ".json">>, 1) },
       { PlainFile(<<"data", ".csv">>, 1) },
       { Dir(<<"docs">>, TRUE, <<>>) },
       { PlainFile(<<"main", ".py">>, 1) },
       { PlainFile(<<"notes", ".md">>, 1) },
       { Dir(<<"src">>, TRUE, <<>>) },
       { PlainFile(<<"vocab", ".txt">>, 1) } >>

\* A project of many subdirectories that cannot be summarized.
ManyDirsSlots ==
    << { PlainFile(<<"Kitfile">>, 1) },
       { PlainFile(<<"README", ".md">>, 1) } >>
    \o [k \in 1..NumDirs |->
          { CodeDir(<<"dir", ToString(k)>>), UnreadableDir(<<"dir", ToString(k)>>) }]
    \o << { PlainFile(<<"main", ".py">>, 1) },
          { Dir(<<"src">>, TRUE, <<>>) } >>

\* A project of one subdirectory, over all the listings of at most
\* MaxChildren children it can have.
ChildSlots ==
    << { PlainFile(<<"cfg", ".json">>, 1) },
       { PlainFile(<<"guide", ".md">>, 1) },
       { Dir(<<"nested">>, TRUE, <<>>) },
       { PlainFile(<<"notes", ".txt">>, 1) },
       { PlainFile(<<"run", ".py">>, 1) },
       { PlainFile(<<"w", ".pt">>, 1) },
       { PlainFile(<<"w2", ".safetensors">>, 1) },
       { PlainFile(<<"x", ".csv">>, 1) } >>

OneDirSlots ==
    << { Dir(<<"assets">>, TRUE, l) :
            l \in { c \in Listings(ChildSlots) : Len(c) <= MaxChildren } }
       \cup { UnreadableDir(<<"assets">>) } >>

\* A project of model files: the first k of MaxCandidates files in the
\* root, of every size, and a directory of weights.
SizeSet == { 0, 100, 110, 120, 310 }

StatResults(name) ==
    { PlainFile(name, s) : s \in SizeSet } \cup { File(name, 0, FALSE, <<>>, TRUE) }

CandidateListings ==
    UNION { { l \in Listings([k \in 1..n |-> StatResults(<<"m", ToString(k), ".bin">>)]) :
                 Len(l) = n } : n \in 0..MaxCandidates }

WeightsDirs ==
    { Dir(<<"weights">>, TRUE, << PlainFile(<<"cfg", ".json">>, c),
                                  PlainFile(<<"w", ".safetensors">>, s) >>) :
        c \in {100, 900}, s \in {100, 310} }

ModelRoots ==
    { Dir(<<"project">>, TRUE, l \o t) :
        l \in CandidateListings, t \in { <<>> } \cup { <<w>> : w \in WeightsDirs } }
        \cup { Dir(<<"project">>, FALSE, <<>>) }

\* The package section init passes: packageOpt is nil (cmd.go line 71).
\* A caller may fill the package section in.
PresetPackage == [Name |-> "mymodel", License |-> "Proprietary"]

Init ==
    \E root \in Roots(ProjectSlots), package \in { EmptyPackage, PresetPackage } :
        Start(root, package)

InitManyDirs == \E root \in Roots(ManyDirsSlots) : Start(root, EmptyPackage)

InitOneDir == \E root \in Roots(OneDirSlots) : Start(root, EmptyPackage)

InitModels == \E root \in ModelRoots : Start(root, EmptyPackage)

Spec == Init /\ [][Next]_vars

SpecManyDirs == InitManyDirs /\ [][Next]_vars

SpecOneDir == InitOneDir /\ [][Next]_vars

SpecModels == InitModels /\ [][Next]_vars

\* ------------------------------------------------- the directory, as given
\* What the file system holds, told from the listing alone.
Entries == baseDir.entries

\* GenerateKitfile has returned a Kitfile.
Done == pc = "done" /\ ret.err = ErrNone

Manifest == ret.kitfile[1]

IsReadme(d) == ~d.isDir /\ Len(d.name) > 0 /\ d.name[1] \in {"README", "Readme", "readme"}

IsLicense(d) ==
    ~d.isDir /\ Len(d.name) > 0 /\ d.name[1] \in {"LICENSE", "License", "license"}

\* A file of the root that goes through the suffix tables.
PlainTopFile(d) ==
    ~d.isDir /\ ~IsDefaultKitfileName(d.name) /\ ~IsReadme(d) /\ ~IsLicense(d)

TopFileOfType(d, fType) == PlainTopFile(d) /\ determineFileType(d.name) = fType

CodeDirNames == { <<"src">>, <<"pkg">>, <<"lib">>, <<"build">> }

\* A subdirectory of the root whose contents are looked at.
SummarizedDir(d) ==
    d.isDir /\ ~IsDefaultKitfileName(d.name)
        /\ d.name \notin CodeDirNames \cup { <<"docs">> }

\* The categories other than Metadata with at least one immediate child;
\* a nested directory counts as Unknown.
ActiveCategories(d) ==
    { IF e.isDir THEN fileTypeUnknown ELSE determineFileType(e.name) :
        e \in Range(d.entries) } \ { fileTypeMetadata }

\* A subdirectory whose type cannot be determined: unreadable, mixed, or
\* with no category of its own.
SummaryFails(d) ==
    /\ SummarizedDir(d)
    /\ \/ ~d.readable
       \/ Cardinality(ActiveCategories(d)) # 1
       \/ ActiveCategories(d) = { fileTypeUnknown }

FailedDirs == { k \in 1..Len(Entries) : SummaryFails(Entries[k]) }

HasUnknownTopFile == \E d \in Range(Entries) : TopFileOfType(d, fileTypeUnknown)

CatchAllOnly(code) == Paths(code) = << <<".">> >>

\* C1: after a successful run every root entry whose type could not be
\* determined is in a code layer: with a top-level file of unknown type the
\* Code section is the single entry ".", and a subdirectory whose
\* summarization failed is the path of a Code entry unless the Code section
\* is the single entry ".".
C1_UndeterminedInCodeLayer ==
    Done =>
        \A d \in Range(Entries) :
            /\ TopFileOfType(d, fileTypeUnknown) => CatchAllOnly(Manifest.Code)
            /\ SummaryFails(d) =>
                  \/ CatchAllOnly(Manifest.Code)
                  \/ d.name \in Range(Paths(Manifest.Code))

C1_Witness ==
    /\ Done
    /\ ~HasUnknownTopFile
    /\ \E d \in Range(Entries) : SummaryFails(d) /\ ~d.readable
    /\ Paths(Manifest.Code) = << <<"src">>, <<"assets">> >>

\* C2: with a top-level file of unknown type, or more than 5 subdirectories
\* whose summarization failed, the Code section is exactly the entry ".";
\* otherwise every such subdirectory is the path of exactly one Code entry
\* and no entry is ".".
C2_CatchAllDecision ==
    Done =>
        IF HasUnknownTopFile \/ Cardinality(FailedDirs) > 5
        THEN CatchAllOnly(Manifest.Code)
        ELSE /\ \A k \in FailedDirs :
                   Cardinality({ i \in 1..Len(Manifest.Code) :
                                   Manifest.Code[i].Path = Entries[k].name }) = 1
             /\ <<".">> \notin Range(Paths(Manifest.Code))

C2_Witness ==
    /\ Done
    /\ ~HasUnknownTopFile
    /\ Cardinality(FailedDirs) = 6
    /\ \E d \in Range(Entries) : d.name = <<"src">>
    /\ CatchAllOnly(Manifest.Code)

\* ------------------------------------------------------------- election
RECURSIVE SumSizes(_)
SumSizes(sizes) == IF sizes = <<>> THEN 0 ELSE Head(sizes) + SumSizes(Tail(sizes))

RemoveAt(s, i) == SubSeq(s, 1, i - 1) \o SubSeq(s, i + 1, Len(s))

Occurrences(s, x) == Cardinality({ k \in 1..Len(s) : s[k] = x })

\* The sizes of the model candidates, in discovery order.
CandidateSizes == [k \in 1..Len(modelFiles) |-> EntryAt(modelFiles[k]).size]

\* The parts of the model that come from the candidates: all but the parts
\* the top-level metadata files were appended as.
CandidateParts(model) ==
    SubSeq(Paths(model.Parts), 1, Len(model.Parts) - Len(metadataPaths))

\* C3: with two or more candidates and mean = floor(sum/n): if the largest
\* size is greater than mean + floor(mean/2), the first candidate of that
\* size is Model.Path and the others are the Parts in discovery order;
\* otherwise the first candidate is Model.Path and the rest are the Parts in
\* order. Model.Path and the Parts are the candidates, each once.
C3_ModelElection ==
    Done /\ Len(modelFiles) >= 2 =>
        LET n == Len(modelFiles)
            sizes == CandidateSizes
            mean == SumSizes(sizes) \div n
            largest == CHOOSE x \in Range(sizes) : \A y \in Range(sizes) : y <= x
            first == CHOOSE k \in 1..n :
                        /\ sizes[k] = largest
                        /\ \A j \in 1..(k - 1) : sizes[j] # largest
            model == Manifest.Model[1]
            elected == << model.Path >> \o CandidateParts(model)
        IN  /\ Manifest.Model # <<>>
            /\ Len(model.Parts) = n - 1 + Len(metadataPaths)
            /\ IF largest > mean + (mean \div 2)
               THEN /\ model.Path = modelFiles[first]
                    /\ CandidateParts(model) = RemoveAt(modelFiles, first)
               ELSE /\ model.Path = modelFiles[1]
                    /\ CandidateParts(model) = Tail(modelFiles)
            /\ \A c \in Range(modelFiles) : Occurrences(elected, c) = 1
            /\ Range(elected) = Range(modelFiles)

C3_Witness ==
    /\ Done
    /\ CandidateSizes = << 100, 100, 310 >>
    /\ Manifest.Model[1].Path = modelFiles[3]
    /\ Paths(Manifest.Model[1].Parts) = << modelFiles[1], modelFiles[2] >>

\* C4: the detected license is written to exactly one target, by
\* precedence: the model when there is one and a license was detected, else
\* the single dataset, else the single code layer, else the package; every
\* other license field is as it was.
LicenseTarget(m, licenseType) ==
    IF m.Model # <<>> /\ licenseType # "" THEN "model"
    ELSE IF Len(m.DataSets) = 1 THEN "dataset"
    ELSE IF Len(m.Code) = 1 THEN "code"
    ELSE "package"

C4_LicenseAttachment ==
    Done =>
        LET m == Manifest
            target == LicenseTarget(m, detectedLicenseType)
            Written(section, before) ==
                IF target = section THEN detectedLicenseType ELSE before
        IN  /\ m.Model # <<>> => m.Model[1].License = Written("model", "")
            /\ \A i \in 1..Len(m.DataSets) :
                   m.DataSets[i].License = Written("dataset", "")
            /\ \A i \in 1..Len(m.Code) : m.Code[i].License = Written("code", "")
            /\ m.Package.License = Written("package", packageOpt.License)

C4_Witness ==
    /\ Done
    /\ Entries = << LicenseFile(<<"LICENSE">>, <<"Apache-2.0">>, TRUE) >>
    /\ Manifest.Package.License = "Apache-2.0"

\* C5: whenever the manifest has a model, Model.Name is the last element
\* of Model.Path without its extension.
C5_ModelNameIsFileStem ==
    Done /\ Manifest.Model # <<>> =>
        LET model == Manifest.Model[1]
        IN  model.Name = TrimSuffix(Base(model.Path), Ext(model.Path))

\* ---------------------------------------------------------------- order
\* Position in the root listing of the entry a path names.
RootIndex(path) == CHOOSE k \in 1..Len(Entries) : Entries[k].name = path

HasRootEntry(path) == \E k \in 1..Len(Entries) : Entries[k].name = path

\* The entries of the list come in the order of the root listing.
InListingOrder(list) ==
    \A i, j \in 1..Len(list) :
        i < j /\ HasRootEntry(list[i].Path) /\ HasRootEntry(list[j].Path)
            => RootIndex(list[i].Path) < RootIndex(list[j].Path)

\* The list is two runs, each in the order of the root listing: the entries
\* whose path is not Late, then the entries whose path is Late.
InTwoRuns(list, Late(_)) ==
    \A i, j \in 1..Len(list) :
        i < j /\ HasRootEntry(list[i].Path) /\ HasRootEntry(list[j].Path)
            => /\ ~(Late(list[i].Path) /\ ~Late(list[j].Path))
               /\ Late(list[i].Path) = Late(list[j].Path)
                     => RootIndex(list[i].Path) < RootIndex(list[j].Path)

IsTopMetadataFile(path) ==
    HasRootEntry(path) /\ TopFileOfType(Entries[RootIndex(path)], fileTypeMetadata)

IsFailedDir(path) == HasRootEntry(path) /\ SummaryFails(Entries[RootIndex(path)])

\* C6 as stated: in each of the Dataset, Docs and Code lists the entries
\* come in the order of the root listing.
C6_EncounterOrder ==
    Done =>
        /\ InListingOrder(Manifest.DataSets)
        /\ InListingOrder(Manifest.Docs)
        /\ InListingOrder(Manifest.Code)

\* C6 as amended: the Docs entries come in the order of the root listing;
\* the Dataset entries of dataset files and dataset directories come in
\* that order and before the entries of the top-level metadata files, which
\* come in that order too; the Code entries of src, pkg, lib and build come
\* in that order and before the entries of the unprocessed directories,
\* which come in that order too.
C6_OrderWithinRuns ==
    Done =>
        /\ InListingOrder(Manifest.Docs)
        /\ InTwoRuns(Manifest.DataSets, IsTopMetadataFile)
        /\ InTwoRuns(Manifest.Code, IsFailedDir)

C6_Witness ==
    /\ Done
    /\ Paths(Manifest.DataSets) = << <<"data", ".csv">>, <<"config", ".json">> >>
    /\ Paths(Manifest.Code) = << <<"src">>, <<"assets">> >>

\* --------------------------------------------------------------- errors
\* The model candidates are two or more and os.Stat fails on one of them.
CandidateStatFails ==
    /\ Len(modelFiles) >= 2
    /\ \E k \in 1..Len(modelFiles) : ~EntryAt(modelFiles[k]).statOk

TraceErrors(name) == { t.err : t \in { u \in Range(trace) : u.dir = name } }

\* C8: for a readable subdirectory not named docs, src, pkg, lib or build:
\* summarization fails as mixed exactly when two or more categories other
\* than Metadata are active; with one of Model, Dataset and Docs alone
\* active it succeeds, and a Dataset or Docs verdict appends the directory
\* once to that list; with no active category, or Unknown alone, it fails
\* as 'handle as Code'.
C8_DirectoryVerdict ==
    pc = "scanned" =>
        \A d \in Range(Entries) :
            SummarizedDir(d) /\ d.readable =>
                LET active == ActiveCategories(d)
                    errors == TraceErrors(d.name)
                    InDataSets == Occurrences(Paths(kitfile.DataSets), d.name)
                    InDocs == Occurrences(Paths(kitfile.Docs), d.name)
                    Unprocessed == Occurrences(unprocessedDirPaths, d.name)
                IN  /\ Cardinality(active) >= 2 <=> errors = { ErrMixed }
                    /\ active = { fileTypeModel } =>
                          errors = {} /\ InDataSets = 0 /\ InDocs = 0
                    /\ active = { fileTypeDataset } =>
                          errors = {} /\ InDataSets = 1 /\ InDocs = 0
                    /\ active = { fileTypeDocs } =>
                          errors = {} /\ InDataSets = 0 /\ InDocs = 1
                    /\ active \in { {}, { fileTypeUnknown } } =>
                          errors = { ErrCode } /\ InDataSets = 0 /\ InDocs = 0
                    /\ Unprocessed = IF errors = {} THEN 0 ELSE 1

C8_Witness ==
    /\ pc = "scanned"
    /\ \E d \in Range(Entries) :
          /\ SummarizedDir(d)
          /\ ActiveCategories(d) = { fileTypeDataset }
          /\ \E e \in Range(d.entries) : determineFileType(e.name) = fileTypeMetadata
          /\ Paths(kitfile.DataSets) = << d.name >>
          /\ trace = <<>>

\* ------------------------------------------------------------- candidates
\* The path lies in the directory of the root with the given name.
Under(path, name) ==
    Len(path) > Len(name) + 1 /\ SubSeq(path, 1, Len(name) + 1) = name \o <<"/">>

CandidatesUnder(name) == SelectSeq(modelFiles, LAMBDA p : Under(p, name))

\* The files of a directory with a model suffix, as paths, in listing order.
ModelSuffixedFiles(d) ==
    LET files == SelectSeq(d.entries,
                     LAMBDA e : ~e.isDir /\ determineFileType(e.name) = fileTypeModel)
    IN  [k \in 1..Len(files) |-> Join(d.name, files[k].name)]

ModelPaths(m) ==
    IF m.Model = <<>> THEN {}
    ELSE { m.Model[1].Path } \cup Range(Paths(m.Model[1].Parts))

\* C9 as stated: a subdirectory whose summarization fails is added to the
\* unprocessed directories and none of its files is a model candidate, the
\* path of the model or a part of it.
C9_FailedDirAddsNoCandidate ==
    /\ pc = "scanned" =>
          \A d \in Range(Entries) :
              SummaryFails(d) =>
                  /\ Occurrences(unprocessedDirPaths, d.name) = 1
                  /\ CandidatesUnder(d.name) = <<>>
    /\ Done =>
          \A d \in Range(Entries) :
              SummaryFails(d) =>
                  \A p \in ModelPaths(Manifest) : ~Under(p, d.name)

\* C9 as amended: a subdirectory whose summarization fails is added to the
\* unprocessed directories; when it can be read, its files with a model
\* suffix, and no other file of it, are model candidates all the same (a
\* directory with such a file fails as mixed), and when it cannot be read it
\* adds none. Every candidate in a subdirectory comes from a directory with
\* the verdict Model or has a model suffix and comes from a mixed directory.
C9_FailedDirKeepsModelFiles ==
    pc = "scanned" =>
        /\ \A d \in Range(Entries) :
              SummaryFails(d) =>
                  /\ Occurrences(unprocessedDirPaths, d.name) = 1
                  /\ CandidatesUnder(d.name) =
                        IF d.readable THEN ModelSuffixedFiles(d) ELSE <<>>
        /\ \A p \in Range(modelFiles) :
              LastSep(p) > 0 =>
                  \E d \in Range(Entries) :
                      /\ SummarizedDir(d) /\ d.readable /\ Under(p, d.name)
                      /\ \/ ActiveCategories(d) = { fileTypeModel }
                         \/ /\ Cardinality(ActiveCategories(d)) >= 2
                            /\ determineFileType(p) = fileTypeModel

C9_Witness ==
    /\ Done
    /\ \E d \in Range(Entries) :
          /\ SummaryFails(d)
          /\ Cardinality(ActiveCategories(d)) >= 2
          /\ Under(Manifest.Model[1].Path, d.name)
          /\ Paths(Manifest.Code) = << d.name >>

\* ---------------------------------------------------------------- metadata
\* The top-level metadata files, in the order of the root listing.
TopMetadataFiles ==
    LET files == SelectSeq(Entries, LAMBDA d : TopFileOfType(d, fileTypeMetadata))
    IN  [k \in 1..Len(files) |-> files[k].name]

\* C10: the manifest has a model exactly when a model candidate was
\* accumulated. With a model, the top-level metadata files are the last
\* parts of the model, in the order of the root listing, after the parts
\* that come from the candidates, and none is a dataset; without one, they
\* are the last datasets, in that order. Each is in the manifest once.
C10_MetadataRouting ==
    Done =>
        LET m == Manifest
            n == Len(modelFiles)
            meta == TopMetadataFiles
            datasets == Paths(m.DataSets)
        IN  /\ m.Model # <<>> <=> n > 0
            /\ Len(m.Model) <= 1
            /\ IF m.Model # <<>>
               THEN LET parts == Paths(m.Model[1].Parts)
                        all == << m.Model[1].Path >> \o parts \o datasets
                    IN  /\ Len(parts) = n - 1 + Len(meta)
                        /\ SubSeq(parts, n, Len(parts)) = meta
                        /\ \A x \in Range(meta) : Occurrences(all, x) = 1
               ELSE /\ Len(datasets) >= Len(meta)
                    /\ SubSeq(datasets, Len(datasets) - Len(meta) + 1, Len(datasets))
                          = meta
                    /\ \A x \in Range(meta) : Occurrences(datasets, x) = 1

C10_Witness ==
    /\ Done
    /\ Len(modelFiles) >= 2
    /\ Len(TopMetadataFiles) = 2
    /\ Len(Manifest.DataSets) = 1

\* ---------------------------------------------------------- primary model
\* C11: whenever the manifest has a model, Model.Path names a file the
\* suffix tables classify as Model; a metadata file is only ever a part.
C11_PrimaryIsModelFile ==
    Done /\ Manifest.Model # <<>> =>
        determineFileType(Manifest.Model[1].Path) = fileTypeModel

\* ---------------------------------------------------------------- license
\* The identifiers of the top-level license files that licensecheck.Scan
\* matches to exactly one license.
ClassifiedLicenses ==
    { d.matches[1] :
        d \in { e \in Range(Entries) :
                  IsLicense(e) /\ e.readable /\ Len(e.matches) = 1 } }

\* The license fields of the manifest.
SectionLicenses(m) ==
    { m.Package.License }
        \cup { m.Model[k].License : k \in 1..Len(m.Model) }
        \cup { m.DataSets[k].License : k \in 1..Len(m.DataSets) }
        \cup { m.Code[k].License : k \in 1..Len(m.Code) }

\* C12: when a top-level license file is classified to exactly one
\* identifier, after a successful run some section carries a detected
\* license, whatever other license files the root holds and whether their
\* classification fails.
C12_DetectedLicenseKept ==
    Done /\ ClassifiedLicenses # {} =>
        SectionLicenses(Manifest) \cap ClassifiedLicenses # {}

====
